---- MODULE Spec2Model ----
(***************************************************************************)
(* Model of webvs Main (src/unnamed/part_001, the documented revision of   *)
(* Main; src/unnamed/part_002 is the same class with another constructor): *)
(* the frame-loop scheduler (start, stop, the resource manager's wait and  *)
(* ready events, the drawFrame callback), preset loading, canvas reset and *)
(* the canvas' context-lost / context-restored events.                     *)
(*                                                                         *)
(* The host (window.requestAnimationFrame) is modelled as a set of         *)
(* outstanding callbacks.  A host frame snapshots the callbacks that are   *)
(* outstanding when it begins and runs each of them once; a callback       *)
(* requested during a frame belongs to a later frame.  JavaScript is       *)
(* single threaded: event handlers and API calls made by the page run      *)
(* between frames; start() and stop() may in addition be called from       *)
(* inside a tick (by the analyser's update() or by a component's draw()).  *)
(*                                                                         *)
(* The Mirror component (src/unnamed/part_000) is modelled on its own,     *)
(* under MirrorSpec: its options, quadrant map, mix vectors and countdown, *)
(* with option assignments and draws as the operations.  Its numbers are   *)
(* exact rationals.                                                        *)
(*                                                                         *)
(* FrameFnsSpec constructs Main with any combination of the two optional   *)
(* frame functions, by the constructor of either revision, and runs the    *)
(* scheduler; Spec constructs it with neither, where the revisions agree.  *)
(***************************************************************************)
EXTENDS Integers, FiniteSets, Sequences, TLC

\* Largest number of callbacks outstanding with the host at once.
MaxPending == 2

\* Largest transitionDuration assigned to a Mirror, and the most transitions
\* started while one is in progress before the weights are back in index mode.
MaxDuration == 2
MaxRetrigger == 1

\* Most option assignments to one Mirror.
MaxAssign == 2

\* Request ids handed out by the host.  The program keeps one reference to
\* an id (animReqId), so an id that is neither outstanding nor stored can be
\* handed out again without the program telling it from a new one.
ReqIds == 1..(MaxPending + 1)

\* Statement of drawFrame a tick position names (0: no tick is executing).
NoTick == 0

\* Preset configurations given to loadPreset: keys are the top-level keys of
\* the object, hasUris says that it holds resources.uris, meta is "undefined"
\* when the object has no meta, valid is false when a component type of the
\* tree is not in the component registry.
Presets ==
    { [components |-> "scope", hasUris |-> FALSE, uris |-> {}, meta |-> "undefined",
       keys |-> {"clearFrame", "components", "name"}, valid |-> TRUE],
      [components |-> "texer", hasUris |-> TRUE, uris |-> {"img"}, meta |-> "m2",
       keys |-> {"clearFrame", "components", "resources", "meta"}, valid |-> TRUE],
      [components |-> "unknown", hasUris |-> FALSE, uris |-> {}, meta |-> "undefined",
       keys |-> {"clearFrame", "components"}, valid |-> FALSE] }

Registers == {"reg00"}

VARIABLES
    isStarted,          \* Main.isStarted
    animReqId,          \* Main.animReqId (0: never assigned)
    pending,            \* callbacks outstanding with the host, by request id
    frameQ,             \* callbacks the current host frame has still to run
    rsrcReady,          \* rsrcMan.ready
    rsrcUris,           \* keys of rsrcMan's registered uris
    rootCfg,            \* configuration the current rootComponent was built from
    rootKeys,           \* keys of the options the current rootComponent was built from
    rootDestroyed,      \* destroy() was called on the current rootComponent
    tempDestroyed,      \* destroy() was called on the current tempBuffers
    meta,               \* Main.meta
    presetResourceKeys, \* Main.presetResourceKeys
    registerBank,       \* Main.registerBank (names of the registers it holds)
    ctxLost,            \* the canvas' WebGL context is lost
    listening,          \* Main's listeners on rsrcMan and on the canvas are attached
    rootNull,           \* Main.rootComponent is null or was never assigned
    rsrcManNull,        \* Main.rsrcMan is null
    options,            \* which of the two frame functions the options supply
    requestAnimationFrame, \* Main.requestAnimationFrame: "custom" or "window"
    cancelAnimationFrame,  \* Main.cancelAnimationFrame: "custom" or "window"
    pc,                 \* statement of drawFrame being executed (NoTick: none)
    tickLog,            \* statements the current (or last) tick has executed
    ticksInFrame,       \* ticks the current (or last) host frame has run
    lastOp,             \* history: the last operation
    prevSched,          \* history: scheduler state before the last operation
    startGate,          \* history: start() found Stopped and not ready, no ready since
    waitGate,           \* history: wait arrived in Running-Active, no ready since
    lossGate,           \* history: context lost, no start() or restore since
    failGate,           \* history: a draw has thrown, no start() since
    stopCtx,            \* history: scheduler state the last stop() found ("none": start() since)
    startedAtLoss,      \* history: isStarted when the context was last lost
    jsonChanged,        \* history: the last operation changed what toJSON() returns
    mirror,             \* Mirror: opts, animFrameCount, map, mix, mixDelta
    mOp,                \* history: the last operation on the Mirror
    mRun,               \* history: draws since the transition started, or NoRun
    mStart,             \* history: the weights the transition started from
    mDepth,             \* history: transitions started since the last index mode
    mAssigned,          \* history: number of option assignments
    torn                \* objects the last operation called destroy() on

sched == <<isStarted, animReqId, pending, frameQ>>
rsrc == <<rsrcReady, rsrcUris>>
tick == <<pc, tickLog, ticksInFrame>>
hist == <<lastOp, prevSched, startGate, waitGate, lossGate, failGate, stopCtx, startedAtLoss, jsonChanged>>
\* The fields of Main, of its resource manager and of the host.
life == <<listening, rootNull, rsrcManNull>>
frameFns == <<options, requestAnimationFrame, cancelAnimationFrame>>
prog == <<sched, rsrc, rootCfg, rootKeys, rootDestroyed, tempDestroyed, meta, presetResourceKeys,
          registerBank, tick, ctxLost, life, frameFns>>
\* The fields of a Mirror component and the history of its operations.
mirrorVars == <<mirror, mOp, mRun, mStart, mDepth, mAssigned>>
vars == <<prog, torn, hist, mirrorVars>>

----------------------------------------------------------------------------
(* The host's frame callbacks *)

\* The id the host returns for a new request.
FreshId == CHOOSE i \in ReqIds : i \notin (pending \cup {animReqId}) /\
              \A j \in ReqIds : j \notin (pending \cup {animReqId}) => i <= j

\* this.animReqId = this.requestAnimationFrame(drawFrame)
RequestFrame ==
    /\ animReqId' = FreshId
    /\ pending' = pending \cup {FreshId}
    /\ frameQ' = frameQ

\* Main._startAnimation: request the first drawFrame.
StartAnimation == RequestFrame

\* Main._stopAnimation: this.cancelAnimationFrame(this.animReqId).  The id
\* names a callback of the source that requestAnimationFrame asked: the
\* cancel function of the other source does not know it.
StopAnimation ==
    /\ pending' = IF cancelAnimationFrame = requestAnimationFrame
                  THEN pending \ {animReqId} ELSE pending
    /\ frameQ' = IF cancelAnimationFrame = requestAnimationFrame
                 THEN frameQ \ {animReqId} ELSE frameQ
    /\ animReqId' = animReqId

\* drawFrame with the next frame requested before the root is drawn.
drawFrame_RequestBeforeDraw == <<"update", "request", "draw">>

\* The body of the drawFrame closure, statement by statement.
drawFrame == <<"update", "draw", "request">>

----------------------------------------------------------------------------
(* Main's methods, as changes of Main's fields *)

\* start() without the test of rsrcMan.ready.
start_IgnoresReady ==
    IF isStarted
    THEN UNCHANGED sched
    ELSE /\ isStarted' = TRUE
         /\ StartAnimation

\* start() without the early return when already started.
start_NoGuard ==
    /\ isStarted' = TRUE
    /\ IF rsrcReady THEN StartAnimation
                    ELSE UNCHANGED <<animReqId, pending, frameQ>>

\* Main.start
start ==
    IF isStarted
    THEN UNCHANGED sched
    ELSE /\ isStarted' = TRUE
         /\ IF rsrcReady THEN StartAnimation
                         ELSE UNCHANGED <<animReqId, pending, frameQ>>

\* Main.stop
stop ==
    IF ~isStarted
    THEN UNCHANGED sched
    ELSE /\ isStarted' = FALSE
         /\ IF rsrcReady THEN StopAnimation
                         ELSE UNCHANGED <<animReqId, pending, frameQ>>

\* handleRsrcWait that cancels nothing.
handleRsrcWait_NoCancel == UNCHANGED sched

\* Main.handleRsrcWait
handleRsrcWait ==
    /\ isStarted' = isStarted
    /\ IF isStarted THEN StopAnimation
                    ELSE UNCHANGED <<animReqId, pending, frameQ>>

\* handleRsrcReady that requests no frame.
handleRsrcReady_NoRequest == UNCHANGED sched

\* Main.handleRsrcReady
handleRsrcReady ==
    /\ isStarted' = isStarted
    /\ IF isStarted THEN StartAnimation
                    ELSE UNCHANGED <<animReqId, pending, frameQ>>

\* rootComponent.toJSON(): the configuration the root was built from.
rootToJSON == [components |-> rootCfg, keys |-> rootKeys]

\* rsrcMan.toJSON(): the registered uris.
rsrcToJSON == [uris |-> rsrcUris]

\* An operation that calls destroy() on nothing and leaves the tree alone.
NothingDestroyed ==
    /\ torn' = {}
    /\ UNCHANGED <<rootCfg, rootKeys, rootDestroyed, tempDestroyed, meta,
                   presetResourceKeys, registerBank, life>>

\* Main._setupRoot(preset): a fresh register bank and a new root built from preset.
SetupRoot_KeepsRegisters(preset) ==
    /\ registerBank' = registerBank
    /\ rootCfg' = preset.components
    /\ rootKeys' = preset.keys \ {"resources", "meta"}
    /\ rootDestroyed' = FALSE

SetupRoot(preset) ==
    /\ registerBank' = {}
    /\ rootCfg' = preset.components
    /\ rootKeys' = preset.keys \ {"resources", "meta"}
    /\ rootDestroyed' = FALSE

\* Main._setupRoot(preset) when new EffectList(...) throws for a component type
\* that is not registered: the register bank is already replaced, and
\* rootComponent still is the root that loadPreset has destroyed.
SetupRootThrows ==
    /\ registerBank' = {}
    /\ rootDestroyed' = TRUE
    /\ UNCHANGED <<rootCfg, rootKeys>>

\* loadPreset without this.rsrcMan.clear(this.presetResourceKeys).
loadPreset_NoClear(preset) ==
    /\ rsrcUris' = IF preset.hasUris THEN rsrcUris \cup preset.uris ELSE rsrcUris
    /\ presetResourceKeys' = IF preset.hasUris THEN preset.uris ELSE {}
    /\ meta' = preset.meta
    /\ IF preset.valid THEN SetupRoot(preset) ELSE SetupRootThrows
    /\ torn' = {"root"}
    /\ UNCHANGED tempDestroyed

\* Main.loadPreset(preset)
loadPreset(preset) ==
    /\ rsrcUris' = IF preset.hasUris
                   THEN (rsrcUris \ presetResourceKeys) \cup preset.uris
                   ELSE rsrcUris \ presetResourceKeys
    /\ presetResourceKeys' = IF preset.hasUris THEN preset.uris ELSE {}
    /\ meta' = preset.meta
    /\ IF preset.valid THEN SetupRoot(preset) ELSE SetupRootThrows
    /\ torn' = {"root"}
    /\ UNCHANGED tempDestroyed

\* resetCanvas that leaves meta and the preset resource keys as the
\* constructor does.
resetCanvas_DropsMeta(glOk) ==
    /\ torn' = {"root", "tempBuffers"}
    /\ meta' = "empty"
    /\ presetResourceKeys' = {}
    /\ IF glOk
       THEN /\ tempDestroyed' = FALSE
            /\ SetupRoot(rootToJSON)
       ELSE /\ rootDestroyed' = TRUE
            /\ tempDestroyed' = TRUE
            /\ UNCHANGED <<rootCfg, rootKeys, registerBank>>

\* resetCanvas without this.tempBuffers.destroy().
resetCanvas_KeepsTempBuffers(glOk) ==
    /\ torn' = {"root"}
    /\ IF glOk
       THEN /\ tempDestroyed' = FALSE
            /\ SetupRoot(rootToJSON)
            /\ UNCHANGED <<meta, presetResourceKeys>>
       ELSE /\ rootDestroyed' = TRUE
            /\ tempDestroyed' = tempDestroyed
            /\ UNCHANGED <<rootCfg, rootKeys, meta, presetResourceKeys, registerBank>>

\* Main.resetCanvas; glOk: _initGl obtains the context and builds the copier
\* and the tempBuffers; otherwise it throws "Couldnt get webgl context" and
\* the destroyed root and tempBuffers stay in place.
resetCanvas(glOk) ==
    /\ torn' = {"root", "tempBuffers"}
    /\ IF glOk
       THEN /\ tempDestroyed' = FALSE
            /\ SetupRoot(rootToJSON)
            /\ UNCHANGED <<meta, presetResourceKeys>>
       ELSE /\ rootDestroyed' = TRUE
            /\ tempDestroyed' = TRUE
            /\ UNCHANGED <<rootCfg, rootKeys, meta, presetResourceKeys, registerBank>>

\* Outcomes of _initGl: with a lost context building the copier can fail.
GlOutcomes == IF ctxLost THEN BOOLEAN ELSE {TRUE}

\* Main.destroy: stop(), the root destroyed and dropped, rsrcMan dropped, the
\* listeners on rsrcMan (stopListening) and on the canvas detached.  The
\* copier and the tempBuffers are not touched.
destroy ==
    /\ stop
    /\ rootDestroyed' = TRUE
    /\ rootNull' = TRUE
    /\ rsrcManNull' = TRUE
    /\ listening' = FALSE
    /\ torn' = {"root"}
    /\ UNCHANGED <<rootCfg, rootKeys, tempDestroyed, meta, presetResourceKeys, registerBank>>

\* Main.toJSON
toJSON ==
    [keys |-> (rootToJSON.keys \cap {"clearFrame", "components"}) \cup {"resources"}
                 \cup (IF meta = "undefined" THEN {} ELSE {"meta"}),
     components |-> rootToJSON.components,
     resources |-> rsrcToJSON,
     meta |-> meta]

----------------------------------------------------------------------------
(* States of the scheduler (section 4.7 of the specification) *)

Idle == pc = NoTick /\ frameQ = {}

\* In a tick, inside analyser.update() or rootComponent.draw().
InUserCode == pc # NoTick /\ drawFrame[pc] \in {"update", "draw"}

\* A preset object as the configuration that toJSON is compared with.
PresetConfig(preset) ==
    [keys |-> preset.keys,
     components |-> preset.components,
     resources |-> [uris |-> preset.uris],
     meta |-> preset.meta]

\* The preset that the current root was built from by loadPreset.
LoadedPreset == CHOOSE preset \in Presets : preset.valid /\ preset.components = rootCfg

\* The operations that run _setupRoot.
SetupOps == {"loadPreset", "loadPresetError", "resetCanvas", "contextRestored"}

SchedState ==
    IF ~Idle THEN "Ticking"
    ELSE IF ~isStarted /\ pending = {} THEN "Stopped"
    ELSE IF isStarted /\ ~rsrcReady /\ pending = {} THEN "Waiting"
    ELSE IF isStarted /\ rsrcReady /\ pending = {animReqId} THEN "Active"
    ELSE "Other"

\* Callbacks outstanding, the one being executed included.
Outstanding == Cardinality(pending) + (IF pc = NoTick THEN 0 ELSE 1)

History(op) ==
    /\ lastOp' = op
    /\ prevSched' = SchedState
    /\ startGate' = IF op = "start" /\ SchedState = "Stopped" /\ ~rsrcReady THEN TRUE
                    ELSE IF op = "rsrcReady" THEN FALSE ELSE startGate
    /\ waitGate' = IF op = "rsrcWait" /\ SchedState = "Active" THEN TRUE
                   ELSE IF op = "rsrcReady" THEN FALSE ELSE waitGate
    /\ lossGate' = IF op = "contextLost" THEN TRUE
                   ELSE IF op \in {"start", "contextRestored"} THEN FALSE ELSE lossGate
    /\ failGate' = IF op = "drawError" THEN TRUE
                   ELSE IF op = "start" THEN FALSE ELSE failGate
    /\ stopCtx' = IF op \in {"stop", "contextLost"} THEN SchedState
                  ELSE IF op = "start" THEN "none" ELSE stopCtx
    /\ startedAtLoss' = IF op = "contextLost" THEN isStarted ELSE startedAtLoss
    /\ jsonChanged' = (toJSON' # toJSON)
    /\ UNCHANGED mirrorVars
    /\ UNCHANGED frameFns

----------------------------------------------------------------------------
(* Numbers of the Mirror: rationals n/d in lowest terms with d > 0, and   *)
(* 1/0, -1/0, 0/0 for Infinity, -Infinity and NaN.  The rounding of the     *)
(* host's floating point numbers is not modelled.                          *)

Abs(x) == IF x < 0 THEN 0 - x ELSE x

Sign(x) == IF x < 0 THEN 0 - 1 ELSE IF x > 0 THEN 1 ELSE 0

RECURSIVE GCD(_, _)
GCD(a, b) == IF b = 0 THEN a ELSE GCD(b, a % b)

Frac(n, d) ==
    IF d = 0 THEN [n |-> Sign(n), d |-> 0]
    ELSE LET g == GCD(Abs(n), Abs(d))
         IN  [n |-> (Sign(d) * n) \div g, d |-> Abs(d) \div g]

Num(k) == [n |-> k, d |-> 1]

\* a + b
RAdd(a, b) ==
    IF a.d # 0 /\ b.d # 0 THEN Frac(a.n * b.d + b.n * a.d, a.d * b.d)
    ELSE IF a.d = 0 /\ b.d = 0 THEN (IF a.n = b.n THEN a ELSE Frac(0, 0))
    ELSE IF a.d = 0 THEN a ELSE b

\* a - b
RSub(a, b) == RAdd(a, [n |-> 0 - b.n, d |-> b.d])

\* a / k and a * k for an integer k
RDiv(a, k) ==
    IF a.d = 0 THEN Frac(a.n * (IF k < 0 THEN 0 - 1 ELSE 1), 0)
    ELSE Frac(a.n, a.d * k)

RMul(a, k) ==
    IF a.d = 0 THEN Frac(a.n * Sign(k), 0) ELSE Frac(a.n * k, a.d)

\* a <= b, false when one of them is NaN
RLeq(a, b) ==
    IF a.d # 0 /\ b.d # 0 THEN a.n * b.d <= b.n * a.d
    ELSE IF (a.d = 0 /\ a.n = 0) \/ (b.d = 0 /\ b.n = 0) THEN FALSE
    ELSE IF a.d = 0 THEN (a.n < 0 \/ a = b) ELSE b.n > 0

----------------------------------------------------------------------------
(* The Mirror component *)

Quadrants == 0..3

Directions == <<"topToBottom", "bottomToTop", "leftToRight", "rightToLeft">>

DirectionNames == {Directions[k] : k \in 1..4}

optUpdateHandlers_NoRightToLeft ==
    [name \in DirectionNames \ {"rightToLeft"} |-> "updateMap"]

\* Mirror.optUpdateHandlers
optUpdateHandlers == [name \in DirectionNames |-> "updateMap"]

\* Mirror.defaultOptions
defaultOptions ==
    [onBeatRandom |-> FALSE, topToBottom |-> TRUE, bottomToTop |-> FALSE,
     leftToRight |-> FALSE, rightToLeft |-> FALSE, smoothTransition |-> FALSE,
     transitionDuration |-> 4]

\* Mirror._inTransition
inTransition(m) == m.opts.smoothTransition /\ m.animFrameCount # 0

\* _setMix that converts the vectors to weights also when a countdown runs.
setMix_AlwaysConverts(m, noTransition) ==
    IF m.opts.smoothTransition /\ ~noTransition
    THEN LET weights ==
                 [i \in Quadrants |->
                    LET quad == m.mix[i][0]
                    IN  [j \in Quadrants |->
                           IF quad = Num(j) THEN Num(1)
                           ELSE IF j = 0 THEN Num(0) ELSE m.mix[i][j]]]
         IN  [m EXCEPT
                !.mix = weights,
                !.mixDelta =
                    [i \in Quadrants |-> [j \in Quadrants |->
                        RDiv(RSub(IF j = m.map[i] THEN Num(1) ELSE Num(0),
                                  weights[i][j]),
                             m.opts.transitionDuration)]],
                !.animFrameCount = m.opts.transitionDuration]
    ELSE [m EXCEPT
            !.mix = [i \in Quadrants |-> [j \in Quadrants |->
                        IF j = 0 THEN Num(m.map[i]) ELSE Num(0)]]]

\* Mirror._setMix: this.mix[i][quad] = 1 creates no weight when quad is not
\* the index of a quadrant.
setMix(m, noTransition) ==
    IF m.opts.smoothTransition /\ ~noTransition
    THEN LET weights ==
                 IF m.animFrameCount = 0
                 THEN [i \in Quadrants |->
                         LET quad == m.mix[i][0]
                         IN  [j \in Quadrants |->
                                IF quad = Num(j) THEN Num(1)
                                ELSE IF j = 0 THEN Num(0) ELSE m.mix[i][j]]]
                 ELSE m.mix
         IN  [m EXCEPT
                !.mix = weights,
                !.mixDelta =
                    [i \in Quadrants |-> [j \in Quadrants |->
                        RDiv(RSub(IF j = m.map[i] THEN Num(1) ELSE Num(0),
                                  weights[i][j]),
                             m.opts.transitionDuration)]],
                !.animFrameCount = m.opts.transitionDuration]
    ELSE [m EXCEPT
            !.mix = [i \in Quadrants |-> [j \in Quadrants |->
                        IF j = 0 THEN Num(m.map[i]) ELSE Num(0)]]]

\* Bit of randVal selected by mask (1, 2, 4 or 8): randVal & mask.
BitAnd(randVal, mask) == ((randVal \div mask) % 2) = 1

randomDirs_SharedBit(opts, randVal) ==
    [topToBottom |-> BitAnd(randVal, 1) /\ opts.topToBottom,
     bottomToTop |-> BitAnd(randVal, 2) /\ opts.bottomToTop,
     leftToRight |-> BitAnd(randVal, 4) /\ opts.leftToRight,
     rightToLeft |-> BitAnd(randVal, 4) /\ opts.rightToLeft]

\* mirrorDirs of the random variant of _setQuadrantMap.
randomDirs(opts, randVal) ==
    [topToBottom |-> BitAnd(randVal, 1) /\ opts.topToBottom,
     bottomToTop |-> BitAnd(randVal, 2) /\ opts.bottomToTop,
     leftToRight |-> BitAnd(randVal, 4) /\ opts.leftToRight,
     rightToLeft |-> BitAnd(randVal, 8) /\ opts.rightToLeft]

\* A quadrant map whose overwrites read the quadrants' own numbers instead of
\* the map built so far.
QuadrantMap_FixedSources(mirrorDirs) ==
    LET map0 == [i \in Quadrants |-> i]
        map1 == IF mirrorDirs.topToBottom
                THEN [map0 EXCEPT ![2] = 0, ![3] = 1] ELSE map0
        map2 == IF mirrorDirs.bottomToTop
                THEN [map1 EXCEPT ![0] = 2, ![1] = 3] ELSE map1
        map3 == IF mirrorDirs.leftToRight
                THEN [map2 EXCEPT ![1] = 0, ![3] = 2] ELSE map2
    IN  IF mirrorDirs.rightToLeft
        THEN [map3 EXCEPT ![0] = 1, ![2] = 3] ELSE map3

QuadrantMap_BottomToTopFirst(mirrorDirs) ==
    LET map0 == [i \in Quadrants |-> i]
        map1 == IF mirrorDirs.bottomToTop
                THEN [map0 EXCEPT ![0] = map0[2], ![1] = map0[3]] ELSE map0
        map2 == IF mirrorDirs.topToBottom
                THEN [map1 EXCEPT ![2] = map1[0], ![3] = map1[1]] ELSE map1
        map3 == IF mirrorDirs.leftToRight
                THEN [map2 EXCEPT ![1] = map2[0], ![3] = map2[2]] ELSE map2
    IN  IF mirrorDirs.rightToLeft
        THEN [map3 EXCEPT ![0] = map3[1], ![2] = map3[3]] ELSE map3

\* The map that _setQuadrantMap builds from mirrorDirs.
QuadrantMap(mirrorDirs) ==
    LET map0 == [i \in Quadrants |-> i]
        map1 == IF mirrorDirs.topToBottom
                THEN [map0 EXCEPT ![2] = map0[0], ![3] = map0[1]] ELSE map0
        map2 == IF mirrorDirs.bottomToTop
                THEN [map1 EXCEPT ![0] = map1[2], ![1] = map1[3]] ELSE map1
        map3 == IF mirrorDirs.leftToRight
                THEN [map2 EXCEPT ![1] = map2[0], ![3] = map2[2]] ELSE map2
    IN  IF mirrorDirs.rightToLeft
        THEN [map3 EXCEPT ![0] = map3[1], ![2] = map3[3]] ELSE map3

\* Mirror._setQuadrantMap
setQuadrantMap(m, random, randVal) ==
    LET mirrorDirs == IF random THEN randomDirs(m.opts, randVal) ELSE m.opts
    IN  setMix([m EXCEPT !.map = QuadrantMap(mirrorDirs)], FALSE)

\* Mirror.updateMap
updateMap(m) == setQuadrantMap(m, FALSE, 0)

\* Mirror.init, for a component constructed with the options opts.
init(opts) ==
    updateMap([opts |-> opts,
               animFrameCount |-> 0,
               map |-> [i \in Quadrants |-> i],
               mix |-> [i \in Quadrants |-> [j \in Quadrants |->
                          IF j = 0 THEN Num(i) ELSE Num(0)]],
               mixDelta |-> [i \in Quadrants |-> [j \in Quadrants |-> Num(0)]]])

\* A draw that takes a random map on every beat, whatever onBeatRandom is.
drawBegin_RandomOnEveryBeat(m, beat, randVal) ==
    IF beat THEN setQuadrantMap(m, TRUE, randVal) ELSE m

\* Mirror.draw before this.program.run(...): the random map on a beat.
drawBegin(m, beat, randVal) ==
    IF m.opts.onBeatRandom /\ beat THEN setQuadrantMap(m, TRUE, randVal) ELSE m

\* The arguments of this.program.run(...) in a draw that has begun (the
\* uniforms u_mode and u_mix0..3 of MirrorProgram.draw).
rendered(begun) == [transition |-> inTransition(begun), mix |-> begun.mix]

drawEnd_NoSnap(m) ==
    IF inTransition(m)
    THEN [m EXCEPT
            !.animFrameCount = m.animFrameCount - 1,
            !.mix = [i \in Quadrants |-> [j \in Quadrants |->
                       RAdd(m.mix[i][j], m.mixDelta[i][j])]]]
    ELSE m

\* Mirror.draw after this.program.run(...): one step of the transition.
drawEnd(m) ==
    IF inTransition(m)
    THEN IF m.animFrameCount - 1 = 0
         THEN setMix([m EXCEPT !.animFrameCount = 0], TRUE)
         ELSE [m EXCEPT
                 !.animFrameCount = m.animFrameCount - 1,
                 !.mix = [i \in Quadrants |-> [j \in Quadrants |->
                            RAdd(m.mix[i][j], m.mixDelta[i][j])]]]
    ELSE m

\* Component.set(name, value): the option is assigned and the update handler
\* declared for it, if any, is called.
setOption(m, name, value) ==
    LET assigned == [m EXCEPT !.opts[name] = value]
    IN  IF name \in DOMAIN optUpdateHandlers THEN updateMap(assigned) ELSE assigned

----------------------------------------------------------------------------
(* Operations *)

\* Values of the history variables of a Mirror that is in no transition.
NoRun == MaxDuration + 1
NoStart == [i \in Quadrants |-> [j \in Quadrants |-> Num(0)]]

\* The options a Mirror is constructed with or assigned.
OptionValues ==
    [name \in DOMAIN defaultOptions |->
        IF name = "transitionDuration" THEN 0..MaxDuration ELSE BOOLEAN]

\* The values of Math.floor(Math.random() * 16) that the draws get: no bit,
\* bits 0 and 2, bits 1 and 3, all four bits.
RandVals == {0, 5, 10, 15}

\* The options a Mirror is constructed with: no direction, the default one
\* or all four.
MirrorOptions ==
    {opts \in [onBeatRandom : BOOLEAN, topToBottom : BOOLEAN, bottomToTop : BOOLEAN,
               leftToRight : BOOLEAN, rightToLeft : BOOLEAN,
               smoothTransition : BOOLEAN, transitionDuration : 0..MaxDuration] :
        \/ \A name \in DirectionNames : opts[name] = opts.topToBottom
        \/ \A name \in DirectionNames : opts[name] = defaultOptions[name]}

\* History of a Mirror m on which _setQuadrantMap has just run; prior: the
\* animFrameCount it found.
Started(m, prior) ==
    /\ mRun' = IF m.opts.smoothTransition THEN 0 ELSE NoRun
    /\ mStart' = IF m.opts.smoothTransition /\ m.animFrameCount # 0 THEN m.mix ELSE NoStart
    /\ mDepth' = IF ~m.opts.smoothTransition THEN 0
                 ELSE IF prior = 0 THEN 1 ELSE mDepth + 1

\* new Mirror(opts): the constructor calls init().
MirrorNew(opts) ==
    /\ mirror = init(opts)
    /\ mOp = "new"
    /\ mRun = IF opts.smoothTransition THEN 0 ELSE NoRun
    /\ mStart = IF opts.smoothTransition /\ opts.transitionDuration # 0
                THEN init(opts).mix ELSE NoStart
    /\ mDepth = IF opts.smoothTransition THEN 1 ELSE 0
    /\ mAssigned = 0

\* new Main(options).  When _initGl throws, the constructor is left after
\* _initResourceManager and _registerContextEvents have attached the
\* listeners and before _setupRoot: rootComponent is never assigned.
MainNew ==
    /\ isStarted = FALSE
    /\ animReqId = 0
    /\ pending = {}
    /\ frameQ = {}
    /\ rsrcReady = TRUE
    /\ rsrcUris = {}
    /\ rootCfg = "none"
    /\ rootKeys = {}
    /\ rootDestroyed = FALSE
    /\ tempDestroyed = FALSE
    /\ meta = "empty"
    /\ presetResourceKeys = {}
    /\ registerBank = {}
    /\ ctxLost = FALSE
    /\ listening = TRUE
    /\ rootNull \in BOOLEAN
    /\ rsrcManNull = FALSE
    /\ pc = NoTick
    /\ tickLog = <<>>
    /\ ticksInFrame = 0
    /\ lastOp = (IF rootNull THEN "newError" ELSE "new")
    /\ prevSched = "Stopped"
    /\ startGate = FALSE
    /\ waitGate = FALSE
    /\ lossGate = FALSE
    /\ failGate = FALSE
    /\ stopCtx = "none"
    /\ startedAtLoss = FALSE
    /\ jsonChanged = FALSE
    /\ torn = {}

\* The options a Main can be constructed with, as far as the frame functions
\* go: each of the two is supplied or not.
MainOptions == [requestAnimationFrame : BOOLEAN, cancelAnimationFrame : BOOLEAN]

\* Options that supply neither function.
NoFrameFns == [requestAnimationFrame |-> FALSE, cancelAnimationFrame |-> FALSE]

\* The constructor of part_001: the custom pair when both are supplied.
constructor(opts) ==
    IF opts.requestAnimationFrame /\ opts.cancelAnimationFrame
    THEN [requestAnimationFrame |-> "custom", cancelAnimationFrame |-> "custom"]
    ELSE [requestAnimationFrame |-> "window", cancelAnimationFrame |-> "window"]

\* The constructor of part_002: each function on its own, options.f || window.f.
constructor002(opts) ==
    [requestAnimationFrame |-> IF opts.requestAnimationFrame THEN "custom" ELSE "window",
     cancelAnimationFrame |-> IF opts.cancelAnimationFrame THEN "custom" ELSE "window"]

\* new Main(opts) has assigned the frame functions fns.
FrameFnsNew(opts, fns) ==
    /\ options = opts
    /\ requestAnimationFrame = fns.requestAnimationFrame
    /\ cancelAnimationFrame = fns.cancelAnimationFrame

Init == MainNew /\ FrameFnsNew(NoFrameFns, constructor(NoFrameFns))
                /\ MirrorNew(defaultOptions)

\* The page, or code running inside a tick, calls start().
CallStart ==
    /\ ~rootNull
    /\ Idle \/ InUserCode
    /\ (~isStarted /\ rsrcReady) => Outstanding < MaxPending
    /\ start
    /\ UNCHANGED <<rsrc, tick, ctxLost>>
    /\ NothingDestroyed
    /\ History("start")

\* The page, or code running inside a tick, calls stop().
CallStop ==
    /\ ~rootNull
    /\ Idle \/ InUserCode
    /\ stop
    /\ UNCHANGED <<rsrc, tick, ctxLost>>
    /\ NothingDestroyed
    /\ History("stop")

\* The resource manager turns not ready and emits "wait".
RsrcWait ==
    /\ listening
    /\ Idle
    /\ rsrcReady' = FALSE
    /\ handleRsrcWait
    /\ UNCHANGED <<rsrcUris, tick, ctxLost>>
    /\ NothingDestroyed
    /\ History("rsrcWait")

\* The resource manager turns ready and emits "ready".
RsrcReady ==
    /\ listening
    /\ Idle
    /\ isStarted => Outstanding < MaxPending
    /\ rsrcReady' = TRUE
    /\ handleRsrcReady
    /\ UNCHANGED <<rsrcUris, tick, ctxLost>>
    /\ NothingDestroyed
    /\ History("rsrcReady")

\* The page calls loadPreset(preset).
CallLoadPreset ==
    /\ ~rootNull
    /\ Idle
    /\ UNCHANGED <<sched, rsrcReady, tick, ctxLost, life>>
    /\ \E preset \in Presets :
         /\ loadPreset(preset)
         /\ History(IF preset.valid THEN "loadPreset" ELSE "loadPresetError")

\* The page calls resetCanvas(); while the context is lost _initGl may throw.
CallResetCanvas ==
    /\ ~rootNull
    /\ Idle
    /\ UNCHANGED <<sched, rsrc, tick, ctxLost, life>>
    /\ \E glOk \in GlOutcomes :
         /\ resetCanvas(glOk)
         /\ History(IF glOk THEN "resetCanvas" ELSE "resetCanvasError")

\* The page calls notifyResize(): the viewport and the tempBuffers are resized.
CallNotifyResize ==
    /\ ~rootNull
    /\ Idle
    /\ UNCHANGED <<sched, rsrc, tick, ctxLost>>
    /\ NothingDestroyed
    /\ History("notifyResize")

\* The canvas fires webglcontextlost: contextLostHander.
ContextLost ==
    /\ listening
    /\ Idle
    /\ ~ctxLost
    /\ ctxLost' = TRUE
    /\ stop
    /\ UNCHANGED <<rsrc, tick>>
    /\ NothingDestroyed
    /\ History("contextLost")

\* The canvas fires webglcontextrestored: contextRestoredHander.
ContextRestored ==
    /\ listening
    /\ ~rootNull
    /\ Idle
    /\ ctxLost
    /\ ctxLost' = FALSE
    /\ resetCanvas(TRUE)
    /\ UNCHANGED <<sched, rsrc, tick, life>>
    /\ History("contextRestored")

\* webglcontextrestored on the canvas of a Main whose constructor has failed:
\* resetCanvas throws at this.rootComponent.toJSON().
ContextRestoredThrows ==
    /\ listening
    /\ rootNull
    /\ Idle
    /\ ctxLost
    /\ ctxLost' = FALSE
    /\ UNCHANGED <<sched, rsrc, tick>>
    /\ NothingDestroyed
    /\ History("contextRestoredError")

\* The page calls destroy().
CallDestroy ==
    /\ ~rootNull
    /\ Idle
    /\ destroy
    /\ UNCHANGED <<rsrc, tick, ctxLost>>
    /\ History("destroy")

\* The host begins a frame: the callbacks outstanding now are run in it.
HostFrame ==
    /\ Idle
    /\ pending # {}
    /\ frameQ' = pending
    /\ ticksInFrame' = 0
    /\ UNCHANGED <<isStarted, animReqId, pending, rsrc, ctxLost, pc, tickLog>>
    /\ NothingDestroyed
    /\ History("frame")

\* The host invokes one callback of the frame: drawFrame begins.
FireCallback ==
    /\ pc = NoTick
    /\ \E id \in frameQ :
         /\ pending' = pending \ {id}
         /\ frameQ' = frameQ \ {id}
    /\ pc' = 1
    /\ tickLog' = <<>>
    /\ ticksInFrame' = ticksInFrame + 1
    /\ UNCHANGED <<isStarted, animReqId, rsrc, ctxLost>>
    /\ NothingDestroyed
    /\ History("fire")

\* drawFrame executes its next statement.
TickStep ==
    /\ pc # NoTick
    /\ drawFrame[pc] = "draw" => ~rootNull
    /\ tickLog' = Append(tickLog, drawFrame[pc])
    /\ pc' = IF pc = Len(drawFrame) THEN NoTick ELSE pc + 1
    /\ IF drawFrame[pc] = "request"
       THEN RequestFrame
       ELSE UNCHANGED <<animReqId, pending, frameQ>>
    /\ IF drawFrame[pc] = "draw"
       THEN \E written \in SUBSET Registers : registerBank' = registerBank \cup written
       ELSE UNCHANGED registerBank
    /\ torn' = {}
    /\ UNCHANGED <<isStarted, rsrc, rootCfg, rootKeys, rootDestroyed, tempDestroyed,
                   meta, presetResourceKeys, ctxLost, ticksInFrame, life>>
    /\ History(drawFrame[pc])

\* rootComponent.draw() throws (as it does when rootComponent is null):
\* drawFrame is left before it requests a frame.
DrawThrows ==
    /\ pc # NoTick
    /\ drawFrame[pc] = "draw"
    /\ pc' = NoTick
    /\ UNCHANGED <<sched, rsrc, tickLog, ticksInFrame, ctxLost>>
    /\ NothingDestroyed
    /\ History("drawError")

Next ==
    \/ CallStart
    \/ CallStop
    \/ RsrcWait
    \/ RsrcReady
    \/ CallLoadPreset
    \/ CallResetCanvas
    \/ CallNotifyResize
    \/ ContextLost
    \/ ContextRestored
    \/ ContextRestoredThrows
    \/ CallDestroy
    \/ HostFrame
    \/ FireCallback
    \/ TickStep
    \/ DrawThrows

Spec == Init /\ [][Next]_vars

----------------------------------------------------------------------------
(* Operations on a Mirror *)

\* A Mirror constructed with any of the options.
MirrorInit == MainNew /\ ~rootNull /\ FrameFnsNew(NoFrameFns, constructor(NoFrameFns))
                      /\ \E opts \in MirrorOptions : MirrorNew(opts)

\* An option of the Mirror is assigned.
SetOption ==
    \E name \in DOMAIN defaultOptions : \E value \in OptionValues[name] :
        /\ mAssigned < MaxAssign
        /\ (name \in DirectionNames /\ inTransition(mirror)) => mDepth <= MaxRetrigger
        /\ mAssigned' = mAssigned + 1
        /\ \E assigned \in {setOption(mirror, name, value)} : mirror' = assigned
        /\ mOp' = name
        /\ IF name \in DirectionNames
           THEN Started(mirror', mirror.animFrameCount)
           ELSE mRun' = NoRun /\ mStart' = NoStart /\ mDepth' = mDepth
        /\ UNCHANGED <<prog, torn, hist>>

\* The parent draws the Mirror; beat: main.analyser.beat; randVal: the value
\* of Math.floor(Math.random() * 16) when the draw asks for it.
MirrorDraw ==
    \E beat \in BOOLEAN :
    \E randVal \in (IF mirror.opts.onBeatRandom /\ beat THEN RandVals ELSE {0}) :
    \E begun \in {drawBegin(mirror, beat, randVal)} :
        LET random == mirror.opts.onBeatRandom /\ beat
        IN  /\ (random /\ inTransition(mirror)) => mDepth <= MaxRetrigger
            /\ mirror' = drawEnd(begun)
            /\ mOp' = "draw"
            /\ mRun' = LET run == IF random
                                  THEN (IF begun.opts.smoothTransition THEN 0 ELSE NoRun)
                                  ELSE mRun
                       IN  IF run # NoRun /\ inTransition(begun) THEN run + 1 ELSE run
            /\ mStart' = IF ~inTransition(mirror') THEN NoStart
                         ELSE IF random THEN begun.mix ELSE mStart
            /\ mDepth' = IF ~inTransition(mirror') THEN 0
                         ELSE IF ~random THEN mDepth
                         ELSE IF mirror.animFrameCount = 0 THEN 1 ELSE mDepth + 1
            /\ UNCHANGED <<mAssigned, prog, torn, hist>>

MirrorNext ==
    \/ SetOption
    \/ MirrorDraw

MirrorSpec == MirrorInit /\ [][MirrorNext]_vars

\* A Main of either revision constructed with any of the options.
FrameFnsInit ==
    /\ MainNew /\ ~rootNull
    /\ MirrorNew(defaultOptions)
    /\ \E opts \in MainOptions : \E fns \in {constructor(opts), constructor002(opts)} :
          FrameFnsNew(opts, fns)

\* The operations of the scheduler.
FrameFnsNext ==
    \/ CallStart
    \/ CallStop
    \/ RsrcWait
    \/ RsrcReady
    \/ HostFrame
    \/ FireCallback
    \/ TickStep
    \/ DrawThrows

FrameFnsSpec == FrameFnsInit /\ [][FrameFnsNext]_vars

\* The host keeps running frames, and a tick that has begun runs to its end.
FairSpec == Spec /\ WF_vars(HostFrame) /\ WF_vars(FireCallback) /\ WF_vars(TickStep)

----------------------------------------------------------------------------
(* Claims about the scheduler.  The scheduler states are those of          *)
(* SchedState: Stopped (not started, nothing outstanding), Running-Waiting *)
(* (started, not ready, nothing outstanding), Running-Active (started,     *)
(* ready, the callback animReqId names outstanding).                       *)

\* C1: once stop() has returned, whatever state it was called in (Stopped,
\* Running-Waiting, Running-Active, or while a tick is executing), no callback
\* is left outstanding between ticks, so no tick runs until a later start();
\* stop() in Stopped leaves the scheduler Stopped.
C1_NoTickAfterStop ==
    /\ (stopCtx \in {"Stopped", "Waiting", "Active", "Ticking"} /\ pc = NoTick)
           => (~isStarted /\ pending = {})
    /\ (lastOp = "stop" /\ prevSched = "Stopped") => SchedState = "Stopped"

\* C2: start() in Stopped leads to Running-Active (a callback is outstanding)
\* when the resource manager is ready and to Running-Waiting otherwise, and
\* in the second case nothing is outstanding and no tick executes until a
\* ready signal arrives.
C2_StartFromStopped ==
    /\ (lastOp = "start" /\ prevSched = "Stopped" /\ rsrcReady)
           => SchedState = "Active"
    /\ (lastOp = "start" /\ prevSched = "Stopped" /\ ~rsrcReady)
           => SchedState = "Waiting"
    /\ startGate => (pending = {} /\ pc = NoTick)

\* C2 witness: after ticks have run and the scheduler was stopped, start() is
\* called in Stopped while the resource manager is not ready.
C2_Witness ==
    startGate /\ lastOp = "start" /\ prevSched = "Stopped" /\ stopCtx = "none"
        /\ ~rsrcReady /\ ticksInFrame = 1

\* C3: a wait signal that arrives in Running-Active cancels the outstanding
\* callback, and from then to the next ready signal nothing is outstanding
\* and no tick executes, whatever start() and stop() calls are made.
C3_WaitHaltsTicks ==
    /\ (lastOp = "rsrcWait" /\ prevSched = "Active") => SchedState = "Waiting"
    /\ waitGate => (pending = {} /\ pc = NoTick)

\* C3 witness: after the wait signal stop() was called, and then start().
C3_Witness ==
    waitGate /\ lastOp = "start" /\ prevSched = "Stopped" /\ isStarted

\* C4: a ready signal that arrives in Running-Waiting leads to Running-Active
\* and one that arrives in Stopped leaves the scheduler Stopped; with the host
\* running its frames, after the first a tick executes unless a stop or a wait
\* intervenes, and ticks recur: every tick that has run to its end is followed
\* by another one for as long as the scheduler stays started and ready.
C4_ReadyResumes ==
    /\ []((lastOp = "rsrcReady" /\ prevSched = "Waiting") => SchedState = "Active")
    /\ []((lastOp = "rsrcReady" /\ prevSched = "Stopped") => SchedState = "Stopped")
    /\ []((lastOp = "rsrcReady" /\ prevSched = "Waiting")
             => <>(pc # NoTick \/ ~isStarted \/ ~rsrcReady))
    /\ []((lastOp = "request" /\ pc = NoTick)
             => <>(pc # NoTick \/ ~isStarted \/ ~rsrcReady))

\* C4 witness: a ready signal has arrived in Running-Waiting, after an earlier
\* run of ticks was halted by a wait signal.
C4_Witness ==
    /\ lastOp = "rsrcReady" /\ prevSched = "Waiting" /\ SchedState = "Active"
    /\ ticksInFrame = 1

\* C5: at most one callback is outstanding with the host, animReqId names it,
\* and no host frame runs two ticks.
C5_OneOutstanding ==
    /\ Cardinality(pending) <= 1
    /\ pending \subseteq {animReqId}
    /\ ticksInFrame <= 1

\* C6: a tick executes analyser.update, the root's draw and the request of the
\* next frame, in this order and once each; the request follows the draw and
\* leaves the requested callback outstanding.
C6_TickOrder ==
    /\ tickLog = SubSeq(<<"update", "draw", "request">>, 1, Len(tickLog))
    /\ (pc = NoTick /\ lastOp \in {"update", "draw", "request"})
           => (Len(tickLog) = 3 /\ animReqId \in pending)
    /\ (pc # NoTick) => (Len(tickLog) = pc - 1)

\* C6 witness: a tick has run to its end.
C6_Witness ==
    pc = NoTick /\ lastOp = "request" /\ tickLog = <<"update", "draw", "request">>

\* C7: start() called while started changes no field of Main and requests no
\* callback.
C7_StartIdempotent ==
    [][(lastOp' = "start" /\ isStarted) => UNCHANGED prog]_vars

\* C7 witness: start() was called in Running-Active or Running-Waiting.
C7_Witness ==
    lastOp = "start" /\ prevSched \in {"Active", "Waiting"} /\ isStarted

\* C8: after a context loss and the context restore that follows it, the root
\* is a live tree built from the unchanged configuration and, if the scheduler
\* was started when the context was lost, it is started again, with a callback
\* outstanding when the resource manager is ready.
C8_RestoreRebuildsAndResumes ==
    (lastOp = "contextRestored")
        => /\ ~jsonChanged /\ ~rootDestroyed
           /\ startedAtLoss => (isStarted /\ (rsrcReady => pending # {}))

\* C9: a context loss leaves toJSON() unchanged and, until start() is called
\* or the context is restored, the scheduler is not started, nothing is
\* outstanding and no tick executes.
C9_LossForcesStopped ==
    /\ (lastOp = "contextLost") => ~jsonChanged
    /\ lossGate => (~isStarted /\ pending = {} /\ pc = NoTick)

\* C10: the context loss signal destroys the root tree and the tempBuffers.
C10_TornDownAtLoss ==
    (lastOp = "contextLost") => (torn = {"root", "tempBuffers"})

\* C10 as amended: the context loss signal destroys nothing, and stops the
\* scheduler only; the root tree and the tempBuffers that were in use are
\* destroyed when the context restore signal arrives, which then builds new
\* ones.
C10_TornDownAtRestore ==
    /\ (lastOp = "contextLost") => (torn = {} /\ ~isStarted)
    /\ (lastOp = "contextRestored")
           => (torn = {"root", "tempBuffers"} /\ ~rootDestroyed /\ ~tempDestroyed)

\* C10 witness: the context of a loaded preset was lost and has been restored.
C10_Witness ==
    lastOp = "contextRestored" /\ rootCfg = "texer" /\ torn = {"root", "tempBuffers"}

----------------------------------------------------------------------------
(* Claims about presets, the register bank and failures.                   *)

\* C11: after loadPreset(c) of a valid preset c, toJSON() returns a
\* configuration with the same top-level keys and the same values as c.
C11_RoundTrip ==
    (lastOp = "loadPreset") => (toJSON = PresetConfig(LoadedPreset))

\* C12: when loadPreset fails on an unknown component type, the root that was
\* current before the call is not destroyed.
C12_FailedLoadKeepsRoot ==
    (lastOp = "loadPresetError") => (~rootDestroyed /\ "root" \notin torn)

\* C13: once rootComponent.draw() has thrown in a tick, the scheduler is
\* Stopped and no tick is outstanding or running until start() is called.
C13_DrawFailureStops ==
    failGate => (~isStarted /\ pending = {} /\ frameQ = {} /\ pc = NoTick)

\* C14 as stated: the register bank is empty after every loadPreset, and no
\* other operation of Main removes a register from it.
C14_RegistersPerPreset ==
    [][/\ (lastOp' \in {"loadPreset", "loadPresetError"}) => (registerBank' = {})
       /\ (lastOp' \notin {"loadPreset", "loadPresetError"})
             => (registerBank \subseteq registerBank')]_vars

\* C14: the register bank is empty after every loadPreset and after every
\* resetCanvas that rebuilds the root, the one of the context restore handler
\* included; no other operation of Main (ticks, start, stop, wait and ready
\* signals, notifyResize, context loss) removes a register from it.
C14_RegistersPerRoot ==
    [][/\ (lastOp' \in SetupOps) => (registerBank' = {})
       /\ (lastOp' \notin SetupOps) => (registerBank \subseteq registerBank')]_vars

\* C14 witness: a tick after the first one of a loaded preset starts with the
\* register that an earlier tick has written.
C14_Witness ==
    lastOp = "update" /\ rootCfg = "texer" /\ registerBank = {"reg00"}

\* C20: loadPreset called in Running-Active leaves the scheduler Stopped, with
\* no callback outstanding.
C20_LoadPresetStops ==
    (lastOp = "loadPreset" /\ prevSched = "Active") => (SchedState = "Stopped")

----------------------------------------------------------------------------
(* Claims about the Mirror, checked under MirrorSpec.                      *)

\* The four weights of every quadrant lie in [0,1] and sum to 1.
UnitWeights(mix) ==
    \A i \in Quadrants :
        /\ RAdd(RAdd(mix[i][0], mix[i][1]), RAdd(mix[i][2], mix[i][3])) = Num(1)
        /\ \A j \in Quadrants : RLeq(Num(0), mix[i][j]) /\ RLeq(mix[i][j], Num(1))

\* C15: a draw that runs the program in transition mode, with or without a
\* beat, passes it weights that lie in [0,1] and sum to 1 for every quadrant.
C15_WeightsSumToOne ==
    \A beat \in BOOLEAN : \A randVal \in 0..15 :
        LET begun == drawBegin(mirror, beat, randVal)
        IN  rendered(begun).transition => UnitWeights(rendered(begun).mix)

\* The weights that name quadrant map[i] for quadrant i, and the vectors of
\* the index mode.
Target(map) == [i \in Quadrants |-> [j \in Quadrants |->
                  IF j = map[i] THEN Num(1) ELSE Num(0)]]

IndexMix(map) == [i \in Quadrants |-> [j \in Quadrants |->
                    IF j = 0 THEN Num(map[i]) ELSE Num(0)]]

MirrorSteps ==
    << [flag |-> "topToBottom", to |-> <<2, 3>>, from |-> <<0, 1>>],
       [flag |-> "bottomToTop", to |-> <<0, 1>>, from |-> <<2, 3>>],
       [flag |-> "leftToRight", to |-> <<1, 3>>, from |-> <<0, 2>>],
       [flag |-> "rightToLeft", to |-> <<0, 2>>, from |-> <<1, 3>>] >>

\* The map after the enabled overwrites from the k-th on.
RECURSIVE ApplySteps(_, _, _)
ApplySteps(map, dirs, k) ==
    IF k > Len(MirrorSteps) THEN map
    ELSE LET step == MirrorSteps[k]
         IN  ApplySteps(IF dirs[step.flag]
                        THEN [map EXCEPT ![step.to[1]] = map[step.from[1]],
                                         ![step.to[2]] = map[step.from[2]]]
                        ELSE map,
                        dirs, k + 1)

Identity == [i \in Quadrants |-> i]

\* C17: for each of the 16 combinations of the direction flags the quadrant
\* map is the identity with the enabled overwrites applied in the fixed
\* order; the map of a Mirror that was constructed or had a direction
\* assigned is that function of its four flags.
C17_MapFromFlags ==
    /\ \A dirs \in [DirectionNames -> BOOLEAN] :
          QuadrantMap(dirs) = ApplySteps(Identity, dirs, 1)
    /\ (mOp \in DirectionNames \cup {"new"})
          => (mirror.map = ApplySteps(Identity, mirror.opts, 1))

\* C17 witness: topToBottom and bottomToTop are both enabled, bottomToTop
\* assigned last: the upper quadrants win.
C17_Witness ==
    /\ mOp = "bottomToTop"
    /\ mirror.opts.topToBottom /\ mirror.opts.bottomToTop
    /\ ~mirror.opts.leftToRight /\ ~mirror.opts.rightToLeft
    /\ mirror.map = (0 :> 0 @@ 1 :> 1 @@ 2 :> 0 @@ 3 :> 1)

\* Bit k (0 for topToBottom ... 3 for rightToLeft) of a value.
Bit(value, k) == ((value \div (2 ^ k)) % 2) = 1

\* The directions that a random value leaves.
Gated(opts, randVal) ==
    [name \in DirectionNames |->
        opts[name] /\ \E k \in 1..4 : Directions[k] = name /\ Bit(randVal, k - 1)]

\* C18: with onBeatRandom, a draw on a beat that gets the value randVal sets
\* the map to the one in which direction k is applied iff bit k of randVal
\* is 1 and option k is enabled; every subset of the enabled directions is
\* left by some value.
C18_RandomGating ==
    /\ mirror.opts.onBeatRandom =>
          \A randVal \in 0..15 :
              drawBegin(mirror, TRUE, randVal).map
                  = ApplySteps(Identity, Gated(mirror.opts, randVal), 1)
    /\ \A subset \in SUBSET {name \in DirectionNames : mirror.opts[name]} :
          \E randVal \in 0..15 :
              {name \in DirectionNames : randomDirs(mirror.opts, randVal)[name]} = subset

\* C18 witness: all four directions are enabled and a draw on a beat has
\* left none of them.
C18_Witness ==
    /\ mOp = "draw" /\ mirror.opts.onBeatRandom
    /\ \A name \in DirectionNames : mirror.opts[name]
    /\ mirror.map = Identity

\* C19: after the assignment of a direction option, before any draw, the map
\* is the one computed from the current options, and without a smooth
\* transition the quadrants name it.
C19_DirectionUpdatesMap ==
    (mOp \in DirectionNames) =>
        /\ mirror.map = QuadrantMap(mirror.opts)
        /\ ~mirror.opts.smoothTransition => mirror.mix = IndexMix(mirror.map)

\* C19 witness: rightToLeft has been enabled on a Mirror with no direction.
C19_Witness ==
    /\ mOp = "rightToLeft" /\ mirror.opts.rightToLeft
    /\ mirror.map = (0 :> 1 @@ 1 :> 1 @@ 2 :> 3 @@ 3 :> 3)

----------------------------------------------------------------------------
(* Teardown, failed construction and the root that a tick draws *)

\* destroy() has returned.
Destroyed == rsrcManNull

\* The constructor has thrown out of _initGl.
ConstructionFailed == rootNull /\ ~rsrcManNull

\* C21: after destroy() no tick runs again (nothing is outstanding with the
\* host), the root has been destroyed, the listeners on the resource manager
\* and on the canvas are detached, and the tempBuffers have been released.
C21_DestroyTearsDown ==
    Destroyed => /\ pc = NoTick /\ pending = {}
                 /\ rootDestroyed
                 /\ ~listening
                 /\ tempDestroyed

\* C22: a Main whose construction failed for want of a GPU context has no
\* listener left attached, neither on the canvas nor on the resource manager.
C22_FailedConstructionKeepsNothing ==
    ConstructionFailed => ~listening

\* C23: between ticks, on a live Main no draw of which has thrown, a frame
\* callback is outstanding with the host if and only if isStarted is true and
\* the resource manager is ready.
C23_OutstandingIffStartedReady ==
    (Idle /\ ~rootNull /\ ~failGate) => ((pending # {}) <=> (isStarted /\ rsrcReady))

\* C24: whenever a tick has invoked rootComponent.draw(), the root is present
\* and destroy() has not been called on it.
C24_DrawsLiveRoot ==
    (lastOp \in {"draw", "drawError"}) => (~rootNull /\ ~rootDestroyed)

\* C30: presetResourceKeys changes in loadPreset only; after a loadPreset it
\* holds the keys of resources.uris of the preset just loaded (none when the
\* preset has no uris), and the resource manager then holds what it held
\* before without the previous preset's keys, plus the new keys.
C30_PresetResourceKeys ==
    [][/\ (presetResourceKeys' # presetResourceKeys)
             => (lastOp' \in {"loadPreset", "loadPresetError"})
       /\ (lastOp' = "loadPreset")
             => \E preset \in Presets :
                   /\ preset.valid /\ preset.components = rootCfg'
                   /\ presetResourceKeys' = (IF preset.hasUris THEN preset.uris ELSE {})
       /\ (lastOp' = "loadPresetError") => (presetResourceKeys' = {})
       /\ (lastOp' \in {"loadPreset", "loadPresetError"})
             => (rsrcUris' = (rsrcUris \ presetResourceKeys) \cup presetResourceKeys')]_vars

\* C30 witness: the preset with uris has been loaded over itself (the load
\* left toJSON as it was): its keys were cleared and registered again.
C30_Witness ==
    lastOp = "loadPreset" /\ ~jsonChanged /\ rootCfg = "texer"
      /\ presetResourceKeys = {"img"} /\ rsrcUris = {"img"}

----------------------------------------------------------------------------
(* Representation and frame conditions of the Mirror, under MirrorSpec *)

\* C25: whatever draw comes next (beat or not, any random value), the mode it
\* passes to the program matches the vectors: outside a transition every
\* vector is [map[i],0,0,0], in a transition the vectors are weights.
C25_ModeMatchesMix ==
    \A beat \in BOOLEAN : \A randVal \in RandVals :
        LET begun == drawBegin(mirror, beat, randVal)
        IN  IF rendered(begun).transition
            THEN UnitWeights(rendered(begun).mix)
            ELSE rendered(begun).mix = IndexMix(begun.map)

\* What _setMix leaves when it starts a transition from the weights of m
\* without converting them: m2 is the Mirror after it.
Retriggered(m, m2) ==
    /\ m2.mix = m.mix
    /\ m2.animFrameCount = m2.opts.transitionDuration
    /\ m2.mixDelta = [i \in Quadrants |-> [j \in Quadrants |->
                        RDiv(RSub(Target(m2.map)[i][j], m.mix[i][j]),
                             m2.opts.transitionDuration)]]

\* C26: while a smooth transition is in progress, the assignment of a
\* direction option and the random map of a beat leave the weights as they
\* are, compute the deltas from them towards the new target and restart the
\* countdown at transitionDuration.
C26_RetriggerKeepsWeights ==
    inTransition(mirror) =>
        /\ \A name \in DirectionNames : \A value \in BOOLEAN :
              Retriggered(mirror, setOption(mirror, name, value))
        /\ mirror.opts.onBeatRandom =>
              \A randVal \in RandVals :
                  Retriggered(mirror, drawBegin(mirror, TRUE, randVal))

\* C26 witness: a direction was assigned after one draw of a transition of
\* two: the transition has started again from weights that are halves.
C26_Witness ==
    /\ mOp \in DirectionNames /\ mDepth = 2
    /\ mirror.animFrameCount = 2 /\ mirror.opts.transitionDuration = 2
    /\ mStart = mirror.mix
    /\ \E i \in Quadrants : \E j \in Quadrants : mirror.mix[i][j].d = 2

\* C27: animFrameCount is an integer from 0 to transitionDuration.
C27_CountdownBound ==
    mirror.animFrameCount \in 0..mirror.opts.transitionDuration

\* A map into the quadrants that sends every quadrant to a quadrant that
\* shows its own content.
WellFormed(map) ==
    \A i \in Quadrants : map[i] \in Quadrants /\ map[map[i]] = map[i]

\* C28: the map of every combination of the four direction flags, the map of
\* the Mirror and the map that any random gating would give it are
\* well-formed.
C28_MapWellFormed ==
    /\ \A dirs \in [DirectionNames -> BOOLEAN] : WellFormed(QuadrantMap(dirs))
    /\ WellFormed(mirror.map)
    /\ \A randVal \in 0..15 : WellFormed(QuadrantMap(randomDirs(mirror.opts, randVal)))

\* C28 witness: a map built by three overwrites, each reading the map left by
\* the one before it, after a draw.
C28_Witness ==
    /\ mOp = "draw"
    /\ mirror.opts.topToBottom /\ mirror.opts.leftToRight /\ mirror.opts.bottomToTop
    /\ mirror.map = [i \in Quadrants |-> 0]

\* The options of the Mirror that have no update handler.
PlainOptions == {"onBeatRandom", "smoothTransition", "transitionDuration"}

\* C29: a draw with onBeatRandom false, and the assignment of onBeatRandom,
\* smoothTransition or transitionDuration, leave the map as it is; outside a
\* transition such a draw also leaves the vectors and animFrameCount.
C29_FrameCondition ==
    [][/\ (mOp' = "draw" /\ ~mirror.opts.onBeatRandom)
             => /\ mirror'.map = mirror.map
                /\ ~inTransition(mirror)
                      => /\ mirror'.mix = mirror.mix
                         /\ mirror'.animFrameCount = mirror.animFrameCount
       /\ (mOp' \in PlainOptions) => (mirror'.map = mirror.map)]_vars

\* C29 witness: smoothTransition has been assigned while the map was a random
\* one, which differs from the map of the direction flags.
C29_Witness ==
    /\ mOp = "smoothTransition"
    /\ mirror.map # QuadrantMap(mirror.opts)

----------------------------------------------------------------------------
(* The canvas reset *)

\* The operations that are a call of resetCanvas: by the page (returning or
\* throwing out of _initGl) and by the context restore handler.
ResetOps == {"resetCanvas", "resetCanvasError", "contextRestored"}

\* C31: resetCanvas calls destroy() on the old root and on the old
\* tempBuffers; when it returns, the root is a new one built from what the
\* old root serialized to and the tempBuffers are new; isStarted, the
\* outstanding callbacks, meta and the preset resource keys are as before.
C31_ResetCanvasRebuilds ==
    [][(lastOp' \in ResetOps) =>
          /\ torn' = {"root", "tempBuffers"}
          /\ (lastOp' # "resetCanvasError")
                => /\ ~rootDestroyed' /\ ~tempDestroyed'
                   /\ rootCfg' = rootToJSON.components
                   /\ rootKeys' = rootToJSON.keys
          /\ UNCHANGED <<isStarted, animReqId, pending, frameQ, pc, meta,
                         presetResourceKeys>>]_vars

\* C31 witness: resetCanvas has returned on a running Main with a loaded
\* preset: the callback is still outstanding and the root is a new one.
C31_Witness ==
    /\ lastOp = "resetCanvas" /\ prevSched = "Active" /\ SchedState = "Active"
    /\ rootCfg = "texer" /\ meta = "m2" /\ presetResourceKeys = {"img"}
    /\ ~rootDestroyed /\ ~tempDestroyed /\ torn = {"root", "tempBuffers"}

----------------------------------------------------------------------------
(* The frame functions, under FrameFnsSpec *)

\* C32: the request and the cancel function of Main come from the same
\* source, the custom one exactly when the options supply both functions;
\* so the callback that stop() or a wait signal cancels is cancelled at the
\* source that was asked for it.
C32_SameSource ==
    /\ requestAnimationFrame = cancelAnimationFrame
    /\ (requestAnimationFrame = "custom")
          <=> (options.requestAnimationFrame /\ options.cancelAnimationFrame)
    /\ (lastOp \in {"stop", "rsrcWait"} /\ prevSched = "Active") => (pending = {})

=============================================================================
